---- MODULE Spec2Model ----
(***************************************************************************)
(* A model of asm.py: the operand and instruction encoders, the builder    *)
(* calls (emit, tag, ref) and the four phases of assemble().               *)
(***************************************************************************)
EXTENDS Integers, Sequences, FiniteSets, TLC

(***************************************************************************)
(* Bounds of the model.                                                    *)
(***************************************************************************)
MaxIns == 2
MaxLabels == 2
MaxTags == MaxLabels
MaxRefs == MaxLabels
MaxAssemble == 2
MaxPad == 12

VARIABLES
    inses,      \* the global instruction list
    labels,     \* the global label list: label ids in the order tag() appended them
    lab,        \* the Label objects: use_sites, def_site, resolved
    regs,       \* the identifiers of the Reg objects constructed so far
    pc,         \* "build", assemble()'s phase, "done" (returned) or "raised"
    k,          \* assemble(): position of the running loop (instruction or label index)
    u,          \* Label.rewrite: position in use_sites
    error,      \* the exception that ended the last call: [type, at, phase]
    outs,       \* the buffers assemble() has returned, in call order
    calls,      \* number of assemble() calls begun
    built,      \* history: the instructions as the builder calls constructed them
    len1        \* history: the bytecode lengths at the end of the last phase 1

vars == <<inses, labels, lab, regs, pc, k, u, error, outs, calls, built, len1>>

(***************************************************************************)
(* Python values.  An int is a record [hi, lo] that stands for lo when     *)
(* hi = 0 and for 2^hi + lo when hi is 32 or 64 (the results of            *)
(* ctypes.c_uint32 / c_uint64 on a negative number, which are beyond the   *)
(* integers TLC computes with).  PyNone is Python's None where an int is   *)
(* expected; NoBytes is None where a bytes object is expected.             *)
(***************************************************************************)
Int0(x) == [hi |-> 0, lo |-> x]
Wide(h, x) == [hi |-> h, lo |-> x]
PyNone == [hi |-> -1, lo |-> 0]
NoBytes == <<-1>>

Sizes == {8, 16, 32, 64}

Ok(b) == [ok |-> TRUE, bytes |-> b, err |-> "none"]
Raise(e) == [ok |-> FALSE, bytes |-> <<>>, err |-> e]

RECURSIVE LEBytes(_, _)
\* the n low bytes of the two's-complement integer x, least significant first
LEBytes(x, n) == IF n = 0 THEN <<>> ELSE <<x % 256>> \o LEBytes(x \div 256, n - 1)

RECURSIVE BitOr(_, _)
BitOr(a, b) ==
    IF a = 0 THEN b
    ELSE IF b = 0 THEN a
    ELSE (IF (a % 2) + (b % 2) > 0 THEN 1 ELSE 0) + 2 * BitOr(a \div 2, b \div 2)

\* struct.pack's range check 0 <= v < 2^size (|lo| is below 2^31 in the model)
InRange(v, size) ==
    CASE v.hi = 0            -> v.lo >= 0 /\ (size >= 32 \/ v.lo < 2 ^ size)
      [] v.hi \in {32, 64}   -> size > v.hi \/ (size = v.hi /\ v.lo < 0)
      [] OTHER               -> FALSE

\* the size \div 8 little-endian bytes of an in-range value
ValBytes(v, size) ==
    IF v.hi = 0 \/ v.hi = size THEN LEBytes(v.lo, size \div 8)
    ELSE LEBytes(v.lo, 4) \o <<(IF v.lo < 0 THEN 0 ELSE 1), 0, 0, 0>>

size2modifier(size) ==
    CASE size = 64 -> [ok |-> TRUE, mod |-> 64]
      [] size = 32 -> [ok |-> TRUE, mod |-> 48]
      [] size = 16 -> [ok |-> TRUE, mod |-> 32]
      [] size = 8  -> [ok |-> TRUE, mod |-> 16]
      [] OTHER     -> [ok |-> FALSE, mod |-> 0]

pack64(s) == IF InRange(s, 64) THEN Ok(ValBytes(s, 64)) ELSE Raise("struct.error")
pack32(s) == IF InRange(s, 32) THEN Ok(ValBytes(s, 32)) ELSE Raise("struct.error")
pack16(s) == IF InRange(s, 16) THEN Ok(ValBytes(s, 16)) ELSE Raise("struct.error")
pack8(s) == IF InRange(s, 8) THEN Ok(ValBytes(s, 8)) ELSE Raise("struct.error")

\* a conversion that refuses a value outside the signed range of the size
signed2unsignedChecked(x, size) ==
    IF size \in {8, 16} /\ (x < -(2 ^ (size - 1)) \/ x > 2 ^ (size - 1) - 1) THEN PyNone
    ELSE CASE size = 8  -> Int0(x % 256)
           [] size = 16 -> Int0(x % 65536)
           [] size = 32 -> IF x >= 0 THEN Int0(x) ELSE Wide(32, x)
           [] size = 64 -> IF x >= 0 THEN Int0(x) ELSE Wide(64, x)
           [] OTHER     -> PyNone

signed2unsigned(x, size) ==
    CASE size = 8  -> Int0(x % 256)
      [] size = 16 -> Int0(x % 65536)
      [] size = 32 -> IF x >= 0 THEN Int0(x) ELSE Wide(32, x)
      [] size = 64 -> IF x >= 0 THEN Int0(x) ELSE Wide(64, x)
      [] OTHER     -> PyNone

\* pack returns None for any other size; the caller's bytes += None raises
pack(val, size) ==
    CASE size = 64 -> pack64(val)
      [] size = 32 -> pack32(val)
      [] size = 16 -> pack16(val)
      [] size = 8  -> pack8(val)
      [] OTHER     -> Raise("TypeError")

(***************************************************************************)
(* Operands.                                                               *)
(***************************************************************************)
Reg(n) == [kind |-> "Reg", num |-> n]
Imm(v) == [kind |-> "Imm", val |-> v]
Mem(a) == [kind |-> "Mem", addr |-> a]
StackMem(a) == [kind |-> "StackMem", addr |-> a]
LabelRef(l) == [kind |-> "LabelRef", name |-> l]

\* Reg.__init__: int(name[1:]) and the assertion r <= 0x11
RegInit(r) == r <= 17

\* a register number packed at the operand size instead of as one byte
RegMakeSized(self, size) == pack(Int0(self.num), size)

RegMake(self, size) == pack8(Int0(self.num))

ImmMake(self, size) == pack(self.val, size)

LabelRefMake(self, size) == pack(Int0(0), size)

\* Mem.make falls through (returns None) when addr is neither Imm nor Reg
MemMake(self, size) ==
    CASE self.addr.kind = "Imm" -> ImmMake(self.addr, size)
      [] self.addr.kind = "Reg" -> RegMake(self.addr, size)
      [] OTHER                  -> Raise("TypeError")

\* StackMem.make(self) takes no size: every call make(size) raises
StackMemMake(self, size) == Raise("TypeError")

OperandMake(op, size) ==
    CASE op.kind = "Reg"      -> RegMake(op, size)
      [] op.kind = "Imm"      -> ImmMake(op, size)
      [] op.kind = "Mem"      -> MemMake(op, size)
      [] op.kind = "StackMem" -> StackMemMake(op, size)
      [] op.kind = "LabelRef" -> LabelRefMake(op, size)

(***************************************************************************)
(* Instructions.  A make returns the instruction as the call leaves it     *)
(* (bytecode is assigned piece by piece, so a raise leaves a prefix) and   *)
(* the exception raised, "none" when it returns.                           *)
(***************************************************************************)
Unbound == -1

\* the if/elif chain of binop_mode; Unbound when no branch assigns mode
binop_code(dest, src) ==
    CASE dest.kind = "Reg" /\ src.kind = "Reg" -> 0
      [] dest.kind = "Reg" /\ src.kind = "Mem" ->
            (CASE src.addr.kind = "Imm" -> 1
               [] src.addr.kind = "Reg" -> 12
               [] OTHER -> Unbound)
      [] dest.kind = "Mem" /\ src.kind = "Reg" ->
            (CASE dest.addr.kind = "Reg" -> 11
               [] dest.kind = "Imm" -> 2
               [] OTHER -> Unbound)
      [] dest.kind = "Reg" /\ src.kind = "StackMem" ->
            (CASE src.addr.kind = "Imm" -> 3
               [] src.addr.kind = "Reg" -> 14
               [] OTHER -> Unbound)
      [] dest.kind = "StackMem" /\ src.kind = "Reg" ->
            (CASE dest.addr.kind = "Imm" -> 4
               [] dest.addr.kind = "Reg" -> 13
               [] OTHER -> Unbound)
      [] dest.kind = "Reg" /\ src.kind = "Imm" -> 5
      [] OTHER -> Unbound

\* mode | size2modifier(size): reading an unbound mode raises first
ModeByte(code, size) ==
    IF code = Unbound THEN [ok |-> FALSE, mode |-> 0, err |-> "UnboundLocalError"]
    ELSE IF ~size2modifier(size).ok THEN [ok |-> FALSE, mode |-> 0, err |-> "invalid size"]
    ELSE [ok |-> TRUE, mode |-> BitOr(code, size2modifier(size).mod), err |-> "none"]

binop_mode(dest, src, size) == ModeByte(binop_code(dest, src), size)

\* a label reference given a mode code of its own, not the immediate's
unop_codeRef(dest) ==
    CASE dest.kind = "Reg"      -> 6
      [] dest.kind = "Imm"      -> 7
      [] dest.kind = "Mem"      -> 8
      [] dest.kind = "LabelRef" -> 9
      [] OTHER                  -> Unbound

unop_code(dest) ==
    CASE dest.kind = "Reg"      -> 6
      [] dest.kind = "Imm"      -> 7
      [] dest.kind = "Mem"      -> 8
      [] dest.kind = "LabelRef" -> 7
      [] OTHER                  -> Unbound

unop_mode(dest, size) == ModeByte(unop_code(dest), size)

BinOpMake(self, code) ==
    LET m == binop_mode(self.dest, self.src, self.size)
        d == OperandMake(self.dest, self.size)
        s == OperandMake(self.src, self.size)
    IN  IF ~m.ok THEN [ins |-> self, err |-> m.err]
        ELSE IF ~d.ok THEN [ins |-> [self EXCEPT !.bytecode = <<code, m.mode>>], err |-> d.err]
        ELSE IF ~s.ok THEN
            [ins |-> [self EXCEPT !.bytecode = <<code, m.mode>> \o d.bytes], err |-> s.err]
        ELSE [ins |-> [self EXCEPT !.bytecode = <<code, m.mode>> \o d.bytes \o s.bytes],
              err |-> "none"]

UnOpMake(self, code) ==
    LET m == unop_mode(self.dest, self.size)
        d == OperandMake(self.dest, self.size)
    IN  IF ~m.ok THEN [ins |-> self, err |-> m.err]
        ELSE IF ~d.ok THEN [ins |-> [self EXCEPT !.bytecode = <<code, m.mode>>], err |-> d.err]
        ELSE [ins |-> [self EXCEPT !.bytecode = <<code, m.mode>> \o d.bytes], err |-> "none"]

ExitMake(self, code) == [ins |-> self, err |-> "none"]

RetMake(self, code) == [ins |-> [self EXCEPT !.bytecode = <<code>>], err |-> "none"]

\* ins.make(code), dispatched on the instruction's class
Make(self, code) ==
    CASE self.cls = "BinOp" -> BinOpMake(self, code)
      [] self.cls = "UnOp"  -> UnOpMake(self, code)
      [] self.cls = "Exit"  -> ExitMake(self, code)
      [] self.cls = "Ret"   -> RetMake(self, code)

\* constructors: BinOp.__init__, UnOp.__init__, Exit.__init__, Ret()
BinOp(code, dest, src, size) ==
    [cls |-> "BinOp", CODE |-> code, dest |-> dest, src |-> src, size |-> size,
     bytecode |-> NoBytes]
UnOp(code, dest, size) ==
    [cls |-> "UnOp", CODE |-> code, dest |-> dest, size |-> size, bytecode |-> NoBytes]
Exit == [cls |-> "Exit", CODE |-> 0, bytecode |-> <<0>>]
Ret == [cls |-> "Ret", CODE |-> 17, bytecode |-> NoBytes]

MovCODE == 1
PushCODE == 14
JmpCODE == 19

(***************************************************************************)
(* The builder calls.                                                      *)
(***************************************************************************)
None == -1
LabelIds == 1 .. MaxLabels
NoError == [type |-> "none", at |-> 0, phase |-> "none"]

\* Label.__init__
NewLabel == [use_sites |-> <<>>, def_site |-> None, resolved |-> None]

Init ==
    /\ inses = <<>>
    /\ labels = <<>>
    /\ lab = [l \in LabelIds |-> NewLabel]
    /\ regs = 0 .. 17
    /\ pc = "build"
    /\ k = 0
    /\ u = 0
    /\ error = NoError
    /\ outs = <<>>
    /\ calls = 0
    /\ built = <<>>
    /\ len1 = <<>>

\* a label the client holds a LabelRef of: ref() is the only call that returns one
Held(l) == lab[l].use_sites # <<>>

\* the instructions the client programs of the model are written with
Alphabet ==
    {Exit, Ret, UnOp(PushCODE, Reg(1), 16), BinOp(MovCODE, Reg(0), Imm(Int0(1)), 64)}
    \cup {UnOp(JmpCODE, LabelRef(l), s) : l \in {x \in LabelIds : Held(x)}, s \in {8, 64}}

\* binop_ins / uop_ins / exit / ret: append a new instruction object
EmitIns(ins) ==
    /\ pc = "build"
    /\ inses' = Append(inses, ins)
    /\ built' = Append(built, ins)
    /\ UNCHANGED <<labels, lab, regs, pc, k, u, error, outs, calls, len1>>

\* ... in a stream of at most MaxIns instructions
Emit(ins) ==
    /\ pc = "build"
    /\ Len(inses) < MaxIns
    /\ EmitIns(ins)

\* Label.tag
LabelTag(self, def_site) == [self EXCEPT !.def_site = def_site]

\* tag(label)
Tag(l) ==
    /\ pc = "build"
    /\ Len(labels) < MaxTags
    /\ lab' = [lab EXCEPT ![l] = LabelTag(lab[l], Len(inses))]
    /\ labels' = Append(labels, l)
    /\ UNCHANGED <<inses, regs, pc, k, u, error, outs, calls, built, len1>>

\* Label.ref
LabelRefSite(self, ins_idx) == [self EXCEPT !.use_sites = Append(self.use_sites, ins_idx)]

RECURSIVE SumLen(_, _)
SumLen(f, n) == IF n = 0 THEN 0 ELSE SumLen(f, n - 1) + Len(f[n])

TotalRefs == SumLen([l \in LabelIds |-> lab[l].use_sites], MaxLabels)

\* ref(label); the LabelRef it returns is the client's to use (Held)
Ref(l) ==
    /\ pc = "build"
    /\ TotalRefs < MaxRefs
    /\ lab' = [lab EXCEPT ![l] = LabelRefSite(lab[l], Len(inses))]
    /\ UNCHANGED <<inses, labels, regs, pc, k, u, error, outs, calls, built, len1>>

(***************************************************************************)
(* assemble().  Each loop iteration is one step; an exception leaves the   *)
(* globals as they are at the raise.                                       *)
(***************************************************************************)
RECURSIVE Offset(_, _)
\* sum of len(inses[i].bytecode) for i in range(n)
Offset(is, n) == IF n = 0 THEN 0 ELSE Offset(is, n - 1) + Len(is[n].bytecode)

RECURSIVE Concat(_, _)
\* bytecode += ins.bytecode over the first n instructions
Concat(is, n) == IF n = 0 THEN <<>> ELSE Concat(is, n - 1) \o is[n].bytecode

Lengths(is) == [i \in 1 .. Len(is) |-> Len(is[i].bytecode)]

RECURSIVE Settle(_, _, _)
\* phase 1 left one instruction early: the last instruction is not encoded
SettleEarly(p, i, j) ==
    IF p = "encode"
    THEN (IF i > Len(inses) - 1 THEN Settle("resolve", 1, 1) ELSE [pc |-> p, k |-> i, u |-> j])
    ELSE IF p = "resolve" /\ i <= Len(labels) THEN [pc |-> p, k |-> i, u |-> j]
    ELSE [pc |-> "emit", k |-> 0, u |-> 0]

\* where control is once the loops that have nothing left to do are left
Settle(p, i, j) ==
    CASE p = "encode" /\ i > Len(inses) -> Settle("resolve", 1, 1)
      [] p = "resolve" /\ i > Len(labels) -> Settle("rewrite", 1, 1)
      [] p = "rewrite" /\ i > Len(labels) -> [pc |-> "emit", k |-> 0, u |-> 0]
      [] p = "rewrite" /\ i <= Len(labels) /\ j > Len(lab[labels[i]].use_sites) ->
            Settle("rewrite", i + 1, 1)
      [] OTHER -> [pc |-> p, k |-> i, u |-> j]

Goto(p, i, j) ==
    /\ pc' = Settle(p, i, j).pc
    /\ k' = Settle(p, i, j).k
    /\ u' = Settle(p, i, j).u

Raised(type, at) ==
    /\ pc' = "raised"
    /\ error' = [type |-> type, at |-> at, phase |-> pc]
    /\ UNCHANGED <<k, u>>

\* a client calls assemble()
AssembleStart ==
    /\ pc \in {"build", "done", "raised"}
    /\ calls < MaxAssemble
    /\ calls' = calls + 1
    /\ error' = NoError
    /\ Goto("encode", 1, 1)
    /\ len1' = IF inses = <<>> THEN <<>> ELSE len1
    /\ UNCHANGED <<inses, labels, lab, regs, outs, built>>

\* phase 1: ins.make(ins.CODE) for the k-th instruction
Encode ==
    /\ pc = "encode"
    /\ LET r == Make(inses[k], inses[k].CODE)
           is == [inses EXCEPT ![k] = r.ins]
       IN  /\ inses' = is
           /\ IF r.err = "none"
              THEN /\ Goto("encode", k + 1, 1)
                   /\ len1' = IF k = Len(inses) THEN Lengths(is) ELSE len1
                   /\ UNCHANGED error
              ELSE /\ Raised(r.err, Len(inses))
                   /\ UNCHANGED len1
    /\ UNCHANGED <<labels, lab, regs, outs, calls, built>>

\* a label resolved to the stream index of its definition site, not a byte offset
LabelResolveIndex(self) ==
    [label |-> [self EXCEPT !.resolved = self.def_site], err |-> "none"]

\* Label.resolve, reading the stream `is`
LabelResolveIn(is, self) ==
    IF self.def_site = None \/ \E i \in 1 .. self.def_site : is[i].bytecode = NoBytes
    THEN [label |-> self, err |-> "TypeError"]
    ELSE [label |-> [self EXCEPT !.resolved = Offset(is, self.def_site)], err |-> "none"]

\* Label.resolve
LabelResolve(self) == LabelResolveIn(inses, self)

\* phase 2: label.resolve() for the k-th entry of labels
Resolve ==
    /\ pc = "resolve"
    /\ LET r == LabelResolve(lab[labels[k]])
       IN  /\ lab' = [lab EXCEPT ![labels[k]] = r.label]
           /\ IF r.err = "none"
              THEN Goto("resolve", k + 1, 1) /\ UNCHANGED error
              ELSE Raised(r.err, k)
    /\ UNCHANGED <<inses, labels, regs, outs, calls, built, len1>>

\* a rewrite that re-encodes the use site at 64 bits whatever its size
LabelRewriteWiden(is, self, use) ==
    LET ins == is[use + 1]
        dis == self.resolved - Offset(is, use + 1)
        patched == [ins EXCEPT !.dest = Imm(signed2unsigned(dis, 64)), !.size = 64]
        r == Make(patched, ins.CODE)
    IN  [inses |-> [is EXCEPT ![use + 1] = r.ins], err |-> r.err]

\* one iteration of the loop of Label.rewrite, for use site `use`, on the stream `is`
LabelRewriteIn(is, self, use) ==
    IF use + 1 > Len(is) THEN [inses |-> is, err |-> "IndexError"]
    ELSE IF \E i \in 1 .. use + 1 : is[i].bytecode = NoBytes
        THEN [inses |-> is, err |-> "TypeError"]
    ELSE IF self.resolved = None THEN [inses |-> is, err |-> "TypeError"]
    ELSE IF is[use + 1].cls \in {"Exit", "Ret"}
        THEN [inses |-> is, err |-> "AttributeError"]
    ELSE LET offset == Offset(is, use + 1)
             ins == is[use + 1]
             dis == self.resolved - offset
             patched == [ins EXCEPT !.dest = Imm(signed2unsigned(dis, ins.size))]
             r == Make(patched, ins.CODE)
         IN  [inses |-> [is EXCEPT ![use + 1] = r.ins], err |-> r.err]

\* one iteration of the loop of Label.rewrite, for use site `use`
LabelRewrite(self, use) == LabelRewriteIn(inses, self, use)

\* phase 3: the u-th use site of the k-th entry of labels
Rewrite ==
    /\ pc = "rewrite"
    /\ LET self == lab[labels[k]]
           r == LabelRewrite(self, self.use_sites[u])
       IN  /\ inses' = r.inses
           /\ IF r.err = "none"
              THEN Goto("rewrite", k, u + 1) /\ UNCHANGED error
              ELSE Raised(r.err, self.use_sites[u])
    /\ UNCHANGED <<labels, lab, regs, outs, calls, built, len1>>

\* phase 4: concatenate and return
Propagate ==
    /\ pc = "emit"
    /\ outs' = Append(outs, Concat(inses, Len(inses)))
    /\ pc' = "done"
    /\ UNCHANGED <<inses, labels, lab, regs, k, u, error, calls, built, len1>>

Next ==
    \/ \E ins \in Alphabet : Emit(ins)
    \/ \E l \in LabelIds : Tag(l)
    \/ \E l \in LabelIds : Ref(l)
    \/ AssembleStart
    \/ Encode
    \/ Resolve
    \/ Rewrite
    \/ Propagate

Spec == Init /\ [][Next]_vars

(***************************************************************************)
(* The encoders on their own: a stream of one instruction, over every       *)
(* operand kind, size and a range of immediate values, constructed and     *)
(* then encoded by phase 1.  Registers beyond r0..r17 are constructed by   *)
(* the client.                                                             *)
(***************************************************************************)
RegNames == {-1, 5, 18}

\* a client constructs Reg('r<r>'); the assertion raises AssertionError
NewReg(r) ==
    /\ pc = "build"
    /\ IF RegInit(r)
       THEN regs' = regs \cup {r} /\ error' = NoError
       ELSE regs' = regs /\ error' = [type |-> "AssertionError", at |-> r, phase |-> pc]
    /\ UNCHANGED <<inses, labels, lab, pc, k, u, outs, calls, built, len1>>

EncRegs == {Reg(r) : r \in regs \cap {-1, 1, 17}}
EncVals ==
    {Int0(-1), Int0(0), Int0(255), Int0(256), Int0(65535), Int0(65536),
     Wide(32, -1), Wide(32, 0), Wide(64, -1), Wide(64, 0)}
EncImms == {Imm(v) : v \in EncVals}
EncAddrs == {Reg(1), Imm(Int0(2))}
EncRefs == {LabelRef(l) : l \in {x \in LabelIds : Held(x)}}
EncDests ==
    EncRegs \cup {Imm(Int0(0))} \cup {Mem(a) : a \in EncAddrs}
    \cup {StackMem(a) : a \in EncAddrs} \cup EncRefs
EncSrcs == EncDests \cup EncImms
EncSizes == Sizes \cup {7}

EncAlphabet ==
    {Exit, Ret}
    \cup {UnOp(PushCODE, d, s) : d \in EncSrcs \cup {Mem(Mem(Reg(1)))}, s \in EncSizes}
    \cup {BinOp(MovCODE, d, r, s) : d \in EncDests, r \in EncSrcs, s \in EncSizes}

\* the one instruction under test
EncEmit ==
    /\ pc = "build"
    /\ inses = <<>>
    /\ \E ins \in EncAlphabet : Emit(ins)

\* ref() of the first label, for an instruction with a LabelRef operand
EncRef ==
    /\ inses = <<>>
    /\ ~Held(1)
    /\ Ref(1)

NextEnc ==
    \/ \E r \in RegNames : NewReg(r)
    \/ EncRef
    \/ EncEmit
    \/ AssembleStart
    \/ Encode
    \/ Propagate

SpecEnc == Init /\ [][NextEnc]_vars

(***************************************************************************)
(* Properties of the relocation engine, checked under Spec.                *)
(***************************************************************************)
Returned == pc = "done"

RECURSIVE SignedLE(_)
\* a little-endian byte string read as a two's-complement integer
SignedLE(b) ==
    IF Len(b) = 1 THEN (IF b[1] < 128 THEN b[1] ELSE b[1] - 256)
    ELSE b[1] + 256 * SignedLE(Tail(b))

\* a = b modulo 2^w (the model's offsets are far below 2^31, so above 16 bits
\* the two are congruent only when equal)
Congruent(a, b, w) == IF w <= 16 THEN (a - b) % (2 ^ w) = 0 ELSE a = b

OperandBytes(ins) == SubSeq(ins.bytecode, 3, Len(ins.bytecode))

\* instruction index u (from 0) was built as a jump to label l
JumpTo(l, use) ==
    /\ use + 1 <= Len(built)
    /\ built[use + 1].cls = "UnOp"
    /\ built[use + 1].dest = LabelRef(l)

UseSites(l) == {lab[l].use_sites[j] : j \in 1 .. Len(lab[l].use_sites)}

\* C1: when some label was referenced with ref() by a jump of the stream and
\* never passed to tag(), assemble() does not return a buffer.
C1_UndefinedLabelFails ==
    (\E l \in LabelIds :
        lab[l].def_site = None /\ \E x \in UseSites(l) : JumpTo(l, x)) => ~Returned

\* C2: after assemble() returns, for every resolved label whose use sites are
\* jumps built with a reference to it (and to no other label), the operand of
\* each use site, read as a signed integer of the jump's width and added to the
\* offset just after the jump in the returned buffer, is the label's resolved
\* offset modulo 2^width.
C2_DisplacementRoundTrip ==
    (Returned /\ calls = 1) =>
        \A l \in LabelIds :
            (/\ lab[l].resolved # None
             /\ \A x \in UseSites(l) :
                    /\ JumpTo(l, x)
                    /\ \A m \in LabelIds \ {l} : x \notin UseSites(m))
            => \A x \in UseSites(l) :
                    Congruent(SignedLE(OperandBytes(inses[x + 1])) + Offset(inses, x + 1),
                              lab[l].resolved, inses[x + 1].size)

\* C3: after assemble() returns, the resolved offset of every tagged label is
\* the sum of the byte lengths of the instructions before its definition site,
\* which is where that instruction starts in the returned buffer.
C3_ResolvedIsStartOfDefSite ==
    Returned =>
        \A j \in 1 .. Len(labels) :
            lab[labels[j]].resolved = Offset(inses, lab[labels[j]].def_site)

\* C4: from the end of phase 1 on, through the rewrite and in the returned
\* buffer, every instruction has the bytecode length phase 1 gave it.
C4_LengthStable ==
    pc \in {"rewrite", "emit", "done"} =>
        \A i \in 1 .. Len(inses) : Len(inses[i].bytecode) = len1[i]

\* C5: a label's definition site, once set, is never overwritten by a later
\* tag() call.
C5_DefSiteSetOnce ==
    [][\A l \in LabelIds :
          lab[l].def_site # None => lab'[l].def_site = lab[l].def_site]_vars

\* C6: a second assemble() call on the same stream returns exactly the buffer
\* the first call returned.
C6_SecondAssembleSameBytes ==
    Len(outs) >= 2 => outs[2] = outs[1]

\* The stream is one a client wrote the documented way: every use site is
\* the jump that was built with the reference ref() returned.
WellFormed == \A l \in LabelIds : \A x \in UseSites(l) : JumpTo(l, x)

\* On such streams C2, C3, C4 and C6 hold and assemble() never raises.
WellFormedStreamsAssemble ==
    WellFormed =>
        /\ C2_DisplacementRoundTrip
        /\ C3_ResolvedIsStartOfDefSite
        /\ C4_LengthStable
        /\ C6_SecondAssembleSameBytes
        /\ pc # "raised"

(***************************************************************************)
(* Properties of the encoders, checked under SpecEnc.                      *)
(***************************************************************************)
\* phase 1 of the first assemble() call has called make on instruction i
Attempted(i) ==
    /\ calls = 1
    /\ i \in 1 .. Len(inses)
    /\ \/ pc \in {"resolve", "rewrite", "emit", "done"}
       \/ pc = "encode" /\ i < k
       \/ pc = "raised" /\ error.phase = "encode" /\ i <= k

\* ... and the last make called on it returned
Encoded(i) ==
    /\ Attempted(i)
    /\ ~(pc = "raised" /\ error.phase = "encode" /\ i = k)
    /\ ~(pc = "raised" /\ error.phase = "rewrite" /\ i = error.at + 1)

\* the size \div 8 little-endian bytes of v modulo 2^size
WrapBytes(v, size) ==
    IF v.hi = 0 \/ v.hi >= size THEN LEBytes(v.lo, size \div 8) ELSE ValBytes(v, size)

\* C7: a unary instruction with an immediate operand of value v and a size w
\* of 8, 16, 32 or 64 is encoded without a range error, its operand field the
\* w/8 little-endian bytes of v modulo 2^w.
C7_ImmediateWraps ==
    \A i \in 1 .. Len(inses) :
        (/\ Attempted(i)
         /\ inses[i].cls = "UnOp"
         /\ inses[i].dest.kind = "Imm"
         /\ inses[i].size \in Sizes)
        => /\ Encoded(i)
           /\ OperandBytes(inses[i]) = WrapBytes(inses[i].dest.val, inses[i].size)

SizeClass(size) == (size \div 16 + 1) * 16

\* the addressing-mode table of the specification; Unbound for a pair not in it
TableCode(dest, src) ==
    LET K(op) == IF op.kind \in {"Mem", "StackMem"}
                 THEN <<op.kind, op.addr.kind>> ELSE <<op.kind>>
        d == K(dest)
        r == K(src)
    IN  CASE d = <<"Reg">> /\ r = <<"Reg">> -> 0
          [] d = <<"Reg">> /\ r = <<"Mem", "Imm">> -> 1
          [] d = <<"Mem", "Imm">> /\ r = <<"Reg">> -> 2
          [] d = <<"Reg">> /\ r = <<"Mem", "Reg">> -> 12
          [] d = <<"Mem", "Reg">> /\ r = <<"Reg">> -> 11
          [] d = <<"Reg">> /\ r = <<"StackMem", "Imm">> -> 3
          [] d = <<"StackMem", "Imm">> /\ r = <<"Reg">> -> 4
          [] d = <<"Reg">> /\ r = <<"StackMem", "Reg">> -> 14
          [] d = <<"StackMem", "Reg">> /\ r = <<"Reg">> -> 13
          [] d = <<"Reg">> /\ r = <<"Imm">> -> 5
          [] OTHER -> Unbound

\* C8: for every pair of the addressing-mode table and every size of 8, 16,
\* 32 or 64, the mode byte of a binary instruction is the table's code in the
\* low nibble and the size class in the high nibble.
C8_ModeByteTable ==
    \A i \in 1 .. Len(inses) :
        (/\ Attempted(i)
         /\ inses[i].cls = "BinOp"
         /\ inses[i].size \in Sizes
         /\ TableCode(inses[i].dest, inses[i].src) # Unbound)
        => /\ inses[i].bytecode # NoBytes
           /\ Len(inses[i].bytecode) >= 2
           /\ (inses[i].bytecode[2] % 16) = TableCode(inses[i].dest, inses[i].src)
           /\ (inses[i].bytecode[2] \div 16) * 16 = SizeClass(inses[i].size)

\* C9 as stated: an encoded instruction is 1 byte with no operand, 2 + size/8
\* bytes with one and 2 + 2 * (size/8) bytes with two, whatever the operands.
C9_LengthBySize ==
    \A i \in 1 .. Len(inses) :
        Encoded(i) =>
            Len(inses[i].bytecode) =
                CASE inses[i].cls = "UnOp"  -> 2 + inses[i].size \div 8
                  [] inses[i].cls = "BinOp" -> 2 + 2 * (inses[i].size \div 8)
                  [] OTHER                  -> 1

\* the width of an operand's field: a register number is one byte whatever the size
FieldLen(op, size) ==
    IF op.kind = "Reg" \/ (op.kind = "Mem" /\ op.addr.kind = "Reg") THEN 1 ELSE size \div 8

\* C9 amended: an encoded instruction is 1 byte with no operand; otherwise it
\* is the opcode byte, the mode byte and one field per operand, of 1 byte for
\* a register or a memory operand wrapping a register and of size/8 bytes for
\* an immediate, a label reference or a memory operand wrapping an immediate.
C9_LengthByOperandKind ==
    \A i \in 1 .. Len(inses) :
        Encoded(i) =>
            Len(inses[i].bytecode) =
                CASE inses[i].cls = "UnOp"  -> 2 + FieldLen(inses[i].dest, inses[i].size)
                  [] inses[i].cls = "BinOp" ->
                        2 + FieldLen(inses[i].dest, inses[i].size)
                          + FieldLen(inses[i].src, inses[i].size)
                  [] OTHER                  -> 1

\* a 64-bit binary instruction with a register destination and an immediate
\* source has been encoded: 1 + 1 + 1 + 8 bytes
C9_Witness ==
    \E i \in 1 .. Len(inses) :
        /\ Encoded(i)
        /\ inses[i].cls = "BinOp"
        /\ inses[i].size = 64
        /\ inses[i].dest.kind = "Reg"
        /\ inses[i].src.kind = "Imm"
        /\ Len(inses[i].bytecode) = 11

\* C10: every constructed register has an identifier in 0 .. 17.
C10_RegisterRange == \A r \in regs : 0 <= r /\ r <= 17

(***************************************************************************)
(* The invalid-size error: streams of valid and invalid-size instructions  *)
(* with no labels, assembled.                                              *)
(***************************************************************************)
SizeAlphabet ==
    {Exit, Ret}
    \cup {UnOp(PushCODE, Reg(1), s) : s \in {7, 16}}
    \cup {BinOp(MovCODE, Reg(0), Imm(Int0(1)), s) : s \in {7, 16}}

NextSize ==
    \/ \E ins \in SizeAlphabet : Emit(ins)
    \/ AssembleStart
    \/ Encode
    \/ Propagate

SpecSize == Init /\ [][NextSize]_vars

\* C11: when phase 1 raises the invalid-size error, the index the error
\* names is the stream index (from 0) of the instruction whose make raised.
C11_ErrorNamesOffender ==
    (pc = "raised" /\ error.type = "invalid size") => error.at = k - 1

(***************************************************************************)
(* The worked example: mov(Q, r0, Imm(1)); tag(L); mov(Q, r1, Imm(2)) and  *)
(* a jmp to L, of any size, emitted after the tag, before or after the     *)
(* second mov.  assemble() is called on the complete stream.               *)
(***************************************************************************)
Mov1 == BinOp(MovCODE, Reg(0), Imm(Int0(1)), 64)
Mov2 == BinOp(MovCODE, Reg(1), Imm(Int0(2)), 64)

InStream(ins) == \E i \in 1 .. Len(built) : built[i] = ins

ScnMov1 ==
    /\ inses = <<>>
    /\ EmitIns(Mov1)

ScnTag ==
    /\ Len(inses) = 1
    /\ labels = <<>>
    /\ Tag(1)

ScnRef ==
    /\ labels = <<1>>
    /\ ~Held(1)
    /\ Ref(1)

\* jmp(size, ref(L)): the jump is the instruction appended next after ref(L)
ScnJmp ==
    /\ Held(1)
    /\ Len(inses) = lab[1].use_sites[1]
    /\ \E s \in Sizes : EmitIns(UnOp(JmpCODE, LabelRef(1), s))

ScnMov2 ==
    /\ labels = <<1>>
    /\ ~InStream(Mov2)
    /\ Held(1) => Len(inses) > lab[1].use_sites[1]
    /\ EmitIns(Mov2)

ScnAssemble ==
    /\ InStream(Mov2)
    /\ Held(1)
    /\ Len(inses) > lab[1].use_sites[1]
    /\ AssembleStart

NextScn ==
    \/ ScnMov1
    \/ ScnTag
    \/ ScnRef
    \/ ScnJmp
    \/ ScnMov2
    \/ ScnAssemble
    \/ Encode
    \/ Resolve
    \/ Rewrite
    \/ Propagate

SpecScn == Init /\ [][NextScn]_vars

\* x as an unsigned value of w bits
Unsigned(x, w) ==
    IF x >= 0 THEN Int0(x) ELSE IF w <= 16 THEN Int0(2 ^ w + x) ELSE Wide(w, x)

\* the jmp holds the immediate L.resolved minus the offset just after the jmp
ScnPatched ==
    LET x == lab[1].use_sites[1]
        ins == inses[x + 1]
    IN  ins.dest = Imm(Unsigned(lab[1].resolved - Offset(inses, x + 1), ins.size))

\* C12 (as stated): in the worked example assemble() leaves L.resolved = 9
\* and the jmp's immediate is L.resolved minus the offset just after the jmp,
\* unsigned at the jmp's width.
C12_ResolvedNine == Returned => (lab[1].resolved = 9 /\ ScnPatched)

\* C12 (amended): in the worked example assemble() leaves L.resolved = 11,
\* the length of mov(Q, r0, Imm(1)), and the jmp's immediate is L.resolved
\* minus the offset just after the jmp, unsigned at the jmp's width.
C12_ResolvedEleven == Returned => (lab[1].resolved = 11 /\ ScnPatched)

C12_Witness ==
    /\ Returned
    /\ Len(inses) = 3
    /\ inses[3].cls = "UnOp"
    /\ inses[3].size = 8
    /\ inses[3].dest = Imm(Int0(242))
    /\ lab[1].resolved = 11

(***************************************************************************)
(* Properties of the relocation state machine.                             *)
(***************************************************************************)
\* C13: when assemble() has returned, every label with a definition site is
\* resolved, and for every use site that is a jump built with the label's
\* reference the label is resolved and the jump holds an immediate, no
\* longer the label reference.
C13_TerminalState ==
    Returned =>
        \A l \in LabelIds :
            /\ lab[l].def_site # None => lab[l].resolved # None
            /\ \A x \in UseSites(l) :
                   JumpTo(l, x) =>
                       /\ lab[l].resolved # None
                       /\ inses[x + 1].dest.kind = "Imm"

\* C14: whenever a resolve or a rewrite step is about to run, every
\* instruction of the stream has its bytecode set; and whenever a rewrite
\* step is about to run, every label of the label table is resolved.
C14_PhaseOrder ==
    /\ pc \in {"resolve", "rewrite"} =>
           \A i \in 1 .. Len(inses) : inses[i].bytecode # NoBytes
    /\ pc = "rewrite" =>
           \A j \in 1 .. Len(labels) : lab[labels[j]].resolved # None

C14_Witness ==
    /\ pc = "rewrite"
    /\ calls = 1
    /\ Len(labels) = 2
    /\ \E i \in 1 .. Len(inses) : inses[i].cls = "Ret" /\ inses[i].bytecode = <<17>>

\* C15: at every point of the builder calls and of assemble(), the stream has
\* the instructions the builder calls appended, in that order, and every
\* instruction that was not constructed with a label-reference destination
\* has the operands it was constructed with.
C15_OnlyLabelRefDestsChange ==
    /\ Len(inses) = Len(built)
    /\ \A i \in 1 .. Len(built) :
           /\ inses[i].cls = built[i].cls
           /\ (built[i].cls \in {"UnOp", "BinOp"} /\ built[i].dest.kind # "LabelRef") =>
                  /\ inses[i].dest = built[i].dest
                  /\ built[i].cls = "BinOp" => inses[i].src = built[i].src

\* the size-class code of the mode byte
SizeCode(size) ==
    CASE size = 8  -> 16
      [] size = 16 -> 32
      [] size = 32 -> 48
      [] size = 64 -> 64

Zeros(n) == [j \in 1 .. n |-> 0]

\* C16: a rewrite step that changes a unary instruction whose destination
\* is a label reference finds it encoded as the opcode byte, the mode byte
\* 0x7 | size class and size/8 zero bytes, and leaves it with the same opcode
\* byte, the same mode byte and the same length, the destination now an
\* immediate.
C16_RewriteKeepsOpcodeAndMode ==
    [][\A i \in 1 .. Len(inses) :
          (/\ pc = "rewrite"
           /\ inses[i].cls = "UnOp"
           /\ inses[i].dest.kind = "LabelRef"
           /\ inses'[i] # inses[i])
          => /\ inses[i].bytecode =
                    <<inses[i].CODE, 7 + SizeCode(inses[i].size)>> \o Zeros(inses[i].size \div 8)
             /\ inses'[i].dest.kind = "Imm"
             /\ Len(inses'[i].bytecode) = Len(inses[i].bytecode)
             /\ inses'[i].bytecode[1] = inses[i].bytecode[1]
             /\ inses'[i].bytecode[2] = inses[i].bytecode[2]]_vars

C16_Witness ==
    /\ pc = "emit"
    /\ calls = 1
    /\ built[2] = UnOp(JmpCODE, LabelRef(1), 32)
    /\ inses[2].bytecode = <<19, 55, 250, 255, 255, 255>>

(***************************************************************************)
(* Long displacements: a stream of up to MaxPad instructions               *)
(* mov(Q, r0, Imm(1)), of 11 bytes each, with one label tagged and one     *)
(* jump to it, 8 or 16 bits wide, anywhere among them.                     *)
(***************************************************************************)
\* ref(L) was called as the argument of a jump that is not appended yet
RefPending == Held(1) /\ Len(inses) = lab[1].use_sites[1]

JmpEmitted == Held(1) /\ Len(inses) > lab[1].use_sites[1]

PadMov ==
    /\ ~RefPending
    /\ Len(inses) < MaxPad + (IF JmpEmitted THEN 1 ELSE 0)
    /\ EmitIns(Mov1)

PadTag ==
    /\ ~RefPending
    /\ labels = <<>>
    /\ Tag(1)

PadRef ==
    /\ ~Held(1)
    /\ Ref(1)

PadJmp ==
    /\ RefPending
    /\ \E s \in {8, 16} : EmitIns(UnOp(JmpCODE, LabelRef(1), s))

PadAssemble ==
    /\ labels = <<1>>
    /\ JmpEmitted
    /\ AssembleStart

NextPad ==
    \/ PadMov
    \/ PadTag
    \/ PadRef
    \/ PadJmp
    \/ PadAssemble
    \/ Encode
    \/ Resolve
    \/ Rewrite
    \/ Propagate

SpecPad == Init /\ [][NextPad]_vars

\* the true displacement of the jump: the label's offset minus the offset
\* just after the jump
TrueDis == lab[1].resolved - Offset(inses, lab[1].use_sites[1] + 1)

TheJmp == inses[lab[1].use_sites[1] + 1]

OutOfRange(x, w) == x < -(2 ^ (w - 1)) \/ x > 2 ^ (w - 1) - 1

\* C17: assemble() never raises on these streams, and when it has returned
\* and the true displacement is outside the signed range of the jump's
\* width w, the jump's operand is the displacement modulo 2^w, which read as
\* a signed integer of w bits is not the true displacement.
C17_OutOfRangeWraps ==
    /\ pc # "raised"
    /\ (Returned /\ OutOfRange(TrueDis, TheJmp.size)) =>
           /\ OperandBytes(TheJmp) = LEBytes(TrueDis % (2 ^ TheJmp.size), TheJmp.size \div 8)
           /\ SignedLE(OperandBytes(TheJmp)) # TrueDis

C17_Witness ==
    /\ Returned
    /\ calls = 1
    /\ TheJmp.size = 8
    /\ TrueDis = 132
    /\ OperandBytes(TheJmp) = <<132>>

(***************************************************************************)
(* Streams written the documented way: each label is tagged at most once   *)
(* and every ref(L) is the argument of the jump appended next.             *)
(***************************************************************************)
\* ref(l) was called as the argument of a jump that is not appended yet
Pending(l) == Held(l) /\ lab[l].use_sites[Len(lab[l].use_sites)] = Len(inses)

NonePending == \A l \in LabelIds : ~Pending(l)

WfEmit ==
    /\ NonePending
    /\ \E ins \in {Mov1, Ret} : Emit(ins)

WfTag(l) ==
    /\ NonePending
    /\ lab[l].def_site = None
    /\ Tag(l)

WfRef(l) ==
    /\ NonePending
    /\ Len(inses) < MaxIns
    /\ Ref(l)

WfJmp(l) ==
    /\ Pending(l)
    /\ \E s \in {8, 16} : Emit(UnOp(JmpCODE, LabelRef(l), s))

WfAssemble ==
    /\ NonePending
    /\ AssembleStart

NextWf ==
    \/ WfEmit
    \/ \E l \in LabelIds : WfTag(l)
    \/ \E l \in LabelIds : WfRef(l)
    \/ \E l \in LabelIds : WfJmp(l)
    \/ WfAssemble
    \/ Encode
    \/ Resolve
    \/ Rewrite
    \/ Propagate

SpecWf == Init /\ [][NextWf]_vars

(***************************************************************************)
(* assemble() as a function of the stream, the labels and the order of     *)
(* the label table; st is [inses, lab, err].                               *)
(***************************************************************************)
RECURSIVE EncodeAll(_, _)
\* phase 1 over the first n instructions
EncodeAll(st, n) ==
    IF n = 0 THEN st
    ELSE LET p == EncodeAll(st, n - 1)
             r == Make(p.inses[n], p.inses[n].CODE)
         IN  IF p.err # "none" THEN p
             ELSE [p EXCEPT !.inses = [p.inses EXCEPT ![n] = r.ins], !.err = r.err]

RECURSIVE ResolveAll(_, _, _)
\* phase 2 over the first n entries of the table `order`
ResolveAll(st, order, n) ==
    IF n = 0 THEN st
    ELSE LET p == ResolveAll(st, order, n - 1)
             r == LabelResolveIn(p.inses, p.lab[order[n]])
         IN  IF p.err # "none" THEN p
             ELSE [p EXCEPT !.lab = [p.lab EXCEPT ![order[n]] = r.label], !.err = r.err]

RECURSIVE RewriteUses(_, _, _)
\* Label.rewrite of label l over its first j use sites
RewriteUses(st, l, j) ==
    IF j = 0 THEN st
    ELSE LET p == RewriteUses(st, l, j - 1)
             r == LabelRewriteIn(p.inses, p.lab[l], p.lab[l].use_sites[j])
         IN  IF p.err # "none" THEN p
             ELSE [p EXCEPT !.inses = r.inses, !.err = r.err]

RECURSIVE RewriteAll(_, _, _)
\* phase 3 over the first n entries of the table `order`
RewriteAll(st, order, n) ==
    IF n = 0 THEN st
    ELSE LET p == RewriteAll(st, order, n - 1)
         IN  IF p.err # "none" THEN p
             ELSE RewriteUses(p, order[n], Len(p.lab[order[n]].use_sites))

\* what assemble() returns (or the exception it raises) for the stream as
\* the builder calls constructed it, when the label table is `order`
AssembleWith(order) ==
    LET s0 == [inses |-> built,
               lab |-> [l \in LabelIds |-> [lab[l] EXCEPT !.resolved = None]],
               err |-> "none"]
        s1 == EncodeAll(s0, Len(built))
        s2 == ResolveAll(s1, order, Len(order))
        s3 == RewriteAll(s2, order, Len(order))
    IN  IF s3.err = "none"
        THEN [bytes |-> Concat(s3.inses, Len(s3.inses)), err |-> "none"]
        ELSE [bytes |-> <<>>, err |-> s3.err]

\* the label table in every order
TableOrders ==
    {[i \in 1 .. Len(labels) |-> labels[f[i]]] : f \in Permutations(1 .. Len(labels))}

TaggedOnce == \A i, j \in 1 .. Len(labels) : labels[i] = labels[j] => i = j

\* C18: when the first assemble() call has returned for a stream in which
\* each label was tagged once and every use site is the jump built with the
\* reference, the buffer it returned is the one assemble() computes with the
\* label table in any other order.
C18_TableOrderIrrelevant ==
    (Returned /\ calls = 1 /\ WellFormed /\ TaggedOnce) =>
        \A order \in TableOrders :
            AssembleWith(order) = [bytes |-> outs[1], err |-> "none"]

C18_Witness ==
    /\ Returned
    /\ calls = 1
    /\ WellFormed
    /\ TaggedOnce
    /\ Len(labels) = 2
    /\ lab[1].def_site # lab[2].def_site
    /\ Held(1)
    /\ Held(2)

====
